---- MODULE Spec2Model ----
(***************************************************************************)
(* A model of the in-memory B-tree of internal/b-tree/btree.go.            *)
(*                                                                         *)
(* The node graph is a heap: a sequence of Node records addressed by       *)
(* their position, 0 being Go's nil.  Every Go method is an operator that  *)
(* takes the tree (root, heap, size, panic flag) and returns the tree it   *)
(* leaves behind; an index or slice expression that Go would reject at     *)
(* run time sets the panic flag.  Indices are Go's (0-based); At converts.  *)
(***************************************************************************)
EXTENDS Integers, Sequences, FiniteSets, TLC

\* Bounds of the model.
MaxKey == 8
MaxVal == 2
MaxValDel == 1
MaxOrder == 4
MaxPut == 8
MaxDel == 3

Keys == 1..MaxKey
Vals == 1..MaxVal
ValsDel == 1..MaxValDel
Orders == 3..MaxOrder

NIL == 0

VARIABLES order, root, heap, size, status, nPut, nDel, lastOp, ref

vars == <<order, root, heap, size, status, nPut, nDel, lastOp, ref>>

----------------------------------------------------------------------------
\* Sequence helpers for Go's 0-based slices.

At(s, i) == s[i + 1]

InRange(s, i) == i >= 0 /\ i < Len(s)

\* s[:i] and s[i:] of Go
Take(s, i) == SubSeq(s, 1, i)

Drop(s, i) == SubSeq(s, i + 1, Len(s))

\* append(s, nil); copy(s[i+1:], s[i:]); s[i] = x
InsertAt(s, i, x) == Take(s, i) \o <<x>> \o Drop(s, i)

\* copy(s[i:], s[i+1:]); s = s[:len(s)-1]
RemoveAt(s, i) == Take(s, i) \o Drop(s, i + 1)

SetAt(s, i, x) == [s EXCEPT ![i + 1] = x]

Range(s) == {s[i] : i \in DOMAIN s}

\* v named x in F: a value computed once and used by the statements after it
Let(v, F(_)) == CHOOSE r \in {F(x) : x \in {v}} : TRUE

----------------------------------------------------------------------------
\* The data model.

Item(k, v) == [Key |-> k, Value |-> v]

Node(p, es, cs) == [parent |-> p, entries |-> es, children |-> cs]

\* The BTree struct; order is fixed at construction and kept in its own variable.
BTree(r, h, s) == [root |-> r, heap |-> h, size |-> s, panic |-> FALSE]

NewBTree == BTree(NIL, <<>>, 0)

Panic(t) == [t EXCEPT !.panic = TRUE]

N(t, node) == t.heap[node]

SetEntries(t, node, es) == [t EXCEPT !.heap[node].entries = es]

SetChildren(t, node, cs) == [t EXCEPT !.heap[node].children = cs]

Alloc(t, n) == [t EXCEPT !.heap = Append(@, n)]

isLeaf(t, node) == Len(N(t, node).children) = 0

maxChildren == order

minChildren == (order + 1) \div 2

maxEntries == maxChildren - 1

minEntries == minChildren - 1

\* middle rounded up where the code rounds down
middleUpper == order \div 2

middle == (order - 1) \div 2

\* shouldSplit with >= for >: a node is split one entry early
shouldSplitEarly(t, node) == Len(N(t, node).entries) >= maxEntries

shouldSplit(t, node) == Len(N(t, node).entries) > maxEntries

\* isEmpty that looks at the root where the code looks at size
isEmptyByRoot(t) == t.root = NIL

isEmpty(t) == t.size = 0

\* cmpInt of the tests: the three-way comparator handed to NewBTree
Less(a, b) == IF a = b THEN 0 ELSE IF a < b THEN -1 ELSE 1

RECURSIVE searchLoop(_, _, _, _)
\* the loop returning high where the key is not found
searchLoopHigh(es, key, low, high) ==
  IF low <= high
  THEN LET mid == (high + low) \div 2 IN
       IF Less(key, At(es, mid).Key) = 0
       THEN [index |-> mid, found |-> TRUE]
       ELSE IF Less(key, At(es, mid).Key) > 0
            THEN searchLoop(es, key, mid + 1, high)
            ELSE searchLoop(es, key, low, mid - 1)
  ELSE [index |-> high, found |-> FALSE]

searchLoop(es, key, low, high) ==
  IF low <= high
  THEN LET mid == (high + low) \div 2 IN
       IF Less(key, At(es, mid).Key) = 0
       THEN [index |-> mid, found |-> TRUE]
       ELSE IF Less(key, At(es, mid).Key) > 0
            THEN searchLoop(es, key, mid + 1, high)
            ELSE searchLoop(es, key, low, mid - 1)
  ELSE [index |-> low, found |-> FALSE]

searchKeyIndex(t, node, key) ==
  searchLoop(N(t, node).entries, key, 0, Len(N(t, node).entries) - 1)

setParent(t, nodes, p) ==
  [t EXCEPT !.heap = [i \in DOMAIN @ |->
      IF i \in Range(nodes) THEN [@[i] EXCEPT !.parent = p] ELSE @[i]]]

----------------------------------------------------------------------------
\* Insertion.

splitRoot(t) ==
  LET r == N(t, t.root)
      l == Len(t.heap) + 1
      rt == Len(t.heap) + 2
      nr == Len(t.heap) + 3
      leaf == isLeaf(t, t.root)
  IN IF middle + 1 > Len(r.entries) THEN Panic(t)
     ELSE IF ~leaf /\ middle + 1 > Len(r.children) THEN Panic(t)
     ELSE
     Let(Node(nr, Take(r.entries, middle),
              IF leaf THEN <<>> ELSE Take(r.children, middle + 1)), LAMBDA left :
     Let(Node(nr, Drop(r.entries, middle + 1),
              IF leaf THEN <<>> ELSE Drop(r.children, middle + 1)), LAMBDA right :
     Let(Alloc(Alloc(Alloc(t, left), right),
               Node(NIL, <<At(r.entries, middle)>>, <<l, rt>>)), LAMBDA t1 :
     Let(setParent(t1, left.children, l), LAMBDA t2 :
     Let(setParent(t2, right.children, rt), LAMBDA t3 :
     [t3 EXCEPT !.root = nr])))))

RECURSIVE split(_, _)
\* splitNonRoot that keeps the middle entry in the node, over the two halves,
\* where the code hands it to the parent
splitNonRootInPlace(t, node) ==
  LET n == N(t, node)
      l == Len(t.heap) + 1
      rt == Len(t.heap) + 2
      leaf == isLeaf(t, node)
  IN
  Let(Node(node, Take(n.entries, middle),
           IF leaf THEN <<>> ELSE Take(n.children, middle + 1)), LAMBDA left :
  Let(Node(node, Drop(n.entries, middle + 1),
           IF leaf THEN <<>> ELSE Drop(n.children, middle + 1)), LAMBDA right :
  Let(Alloc(Alloc(t, left), right), LAMBDA t1 :
  Let(setParent(t1, left.children, l), LAMBDA t2 :
  Let(setParent(t2, right.children, rt), LAMBDA t3 :
  SetChildren(SetEntries(t3, node, <<At(n.entries, middle)>>), node, <<l, rt>>))))))

splitNonRoot(t, node) ==
  LET n == N(t, node)
      parent == N(t, node).parent
      l == Len(t.heap) + 1
      rt == Len(t.heap) + 2
      leaf == isLeaf(t, node)
  IN IF middle + 1 > Len(n.entries) THEN Panic(t)
     ELSE IF ~leaf /\ middle + 1 > Len(n.children) THEN Panic(t)
     ELSE IF parent = NIL THEN Panic(t)
     ELSE
     Let(Node(parent, Take(n.entries, middle),
              IF leaf THEN <<>> ELSE Take(n.children, middle + 1)), LAMBDA left :
     Let(Node(parent, Drop(n.entries, middle + 1),
              IF leaf THEN <<>> ELSE Drop(n.children, middle + 1)), LAMBDA right :
     Let(Alloc(Alloc(t, left), right), LAMBDA t1 :
     Let(setParent(t1, left.children, l), LAMBDA t2 :
     Let(setParent(t2, right.children, rt), LAMBDA t3 :
     Let(searchKeyIndex(t3, parent, At(n.entries, middle).Key).index,
         LAMBDA insertPosition :
     IF ~InRange(N(t3, parent).children, insertPosition) THEN Panic(t3)
     ELSE
     Let(SetEntries(t3, parent, InsertAt(N(t3, parent).entries, insertPosition,
                                         At(n.entries, middle))), LAMBDA t4 :
     Let(SetChildren(t4, parent,
                     InsertAt(SetAt(N(t4, parent).children, insertPosition, l),
                              insertPosition + 1, rt)), LAMBDA t5 :
     split(t5, parent)))))))))

split(t, node) ==
  IF t.panic THEN t
  ELSE IF ~shouldSplit(t, node) THEN t
  ELSE IF node = t.root THEN splitRoot(t)
  ELSE splitNonRoot(t, node)

\* insert, insertInternal and insertLeaf return the tree and the bool result
Ret(t, b) == [t |-> t, ret |-> b]

\* insertLeaf that leaves the entry of a leaf as it was when the key is found
insertLeafKeepOld(t, node, entry) ==
  LET s == searchKeyIndex(t, node, entry.Key)
      es == N(t, node).entries
  IN IF s.found THEN Ret(t, FALSE)
     ELSE Ret(split(SetEntries(t, node, InsertAt(es, s.index, entry)), node), TRUE)

insertLeaf(t, node, entry) ==
  LET s == searchKeyIndex(t, node, entry.Key)
      es == N(t, node).entries
  IN IF s.found
     THEN Ret(SetEntries(t, node, SetAt(es, s.index, entry)), FALSE)
     ELSE Ret(split(SetEntries(t, node, InsertAt(es, s.index, entry)), node), TRUE)

RECURSIVE insert(_, _, _)
\* insertInternal that leaves the entry of an internal node as it was when
\* the key is found there
insertInternalKeepOld(t, node, entry) ==
  LET s == searchKeyIndex(t, node, entry.Key)
      n == N(t, node)
  IN IF s.found THEN Ret(t, FALSE)
     ELSE IF s.index >= Len(n.children) THEN Ret(Panic(t), FALSE)
     ELSE insert(t, At(n.children, s.index), entry)

insertInternal(t, node, entry) ==
  LET s == searchKeyIndex(t, node, entry.Key)
      n == N(t, node)
  IN IF s.found
     THEN Ret(SetEntries(t, node, SetAt(n.entries, s.index, entry)), FALSE)
     ELSE IF s.index >= Len(n.children) THEN Ret(Panic(t), FALSE)
     ELSE insert(t, At(n.children, s.index), entry)

insert(t, node, entry) ==
  IF isLeaf(t, node) THEN insertLeaf(t, node, entry)
  ELSE insertInternal(t, node, entry)

\* Put that counts every call, whatever insert returns
PutAlwaysCounts(t, key, value) ==
  IF t.root = NIL
  THEN Let(Alloc(t, Node(NIL, <<Item(key, value)>>, <<>>)), LAMBDA t1 :
       [t1 EXCEPT !.root = Len(t1.heap), !.size = @ + 1])
  ELSE Let(insert(t, t.root, Item(key, value)), LAMBDA r :
       IF r.t.panic THEN r.t ELSE [r.t EXCEPT !.size = @ + 1])

\* Put that does nothing on a root that holds no entry
PutNoReuse(t, key, value) ==
  IF t.root = NIL
  THEN Let(Alloc(t, Node(NIL, <<Item(key, value)>>, <<>>)), LAMBDA t1 :
       [t1 EXCEPT !.root = Len(t1.heap), !.size = @ + 1])
  ELSE IF Len(N(t, t.root).entries) = 0 THEN t
  ELSE Let(insert(t, t.root, Item(key, value)), LAMBDA r :
       IF r.t.panic THEN r.t
       ELSE IF r.ret THEN [r.t EXCEPT !.size = @ + 1] ELSE r.t)

Put(t, key, value) ==
  IF t.root = NIL
  THEN Let(Alloc(t, Node(NIL, <<Item(key, value)>>, <<>>)), LAMBDA t1 :
       [t1 EXCEPT !.root = Len(t1.heap), !.size = @ + 1])
  ELSE Let(insert(t, t.root, Item(key, value)), LAMBDA r :
       IF r.t.panic THEN r.t
       ELSE IF r.ret THEN [r.t EXCEPT !.size = @ + 1] ELSE r.t)

----------------------------------------------------------------------------
\* Search.

\* searchRecursively returns node, index, found; panic when a child index is
\* out of range on the way down.
RECURSIVE searchFrom(_, _, _)
searchFrom(t, node, key) ==
  LET s == searchKeyIndex(t, node, key) IN
  IF s.found THEN [node |-> node, index |-> s.index, found |-> TRUE, panic |-> FALSE]
  ELSE IF isLeaf(t, node)
       THEN [node |-> NIL, index |-> -1, found |-> FALSE, panic |-> FALSE]
       ELSE IF ~InRange(N(t, node).children, s.index)
            THEN [node |-> NIL, index |-> -1, found |-> FALSE, panic |-> TRUE]
            ELSE searchFrom(t, At(N(t, node).children, s.index), key)

searchRecursively(t, startNode, key) ==
  IF isEmpty(t)
  THEN [node |-> NIL, index |-> -1, found |-> FALSE, panic |-> FALSE]
  ELSE IF startNode = NIL
       THEN [node |-> NIL, index |-> -1, found |-> FALSE, panic |-> TRUE]
       ELSE searchFrom(t, startNode, key)

\* Get returns value, found; value 0 stands for the zero value of V
Get(t, key) ==
  Let(searchRecursively(t, t.root, key), LAMBDA s :
  IF s.found
  THEN [value |-> At(N(t, s.node).entries, s.index).Value, found |-> TRUE,
        panic |-> s.panic]
  ELSE [value |-> 0, found |-> FALSE, panic |-> s.panic])

----------------------------------------------------------------------------
\* Deletion.

removeFromLeaf(t, node, index) ==
  LET es == N(t, node).entries IN
  IF ~InRange(es, index) THEN Panic(t)
  ELSE SetEntries(t, node, RemoveAt(es, index))

\* predecessor and successor return the item, or panic on an empty leaf
RECURSIVE lastLeaf(_, _)
lastLeaf(t, current) ==
  IF isLeaf(t, current) THEN current
  ELSE lastLeaf(t, At(N(t, current).children, Len(N(t, current).children) - 1))

RECURSIVE firstLeaf(_, _)
firstLeaf(t, current) ==
  IF isLeaf(t, current) THEN current
  ELSE firstLeaf(t, At(N(t, current).children, 0))

predecessor(t, node, index) ==
  LET es == N(t, lastLeaf(t, At(N(t, node).children, index))).entries IN
  IF Len(es) = 0 THEN [item |-> Item(0, 0), panic |-> TRUE]
  ELSE [item |-> At(es, Len(es) - 1), panic |-> FALSE]

successor(t, node, index) ==
  LET es == N(t, firstLeaf(t, At(N(t, node).children, index + 1))).entries IN
  IF Len(es) = 0 THEN [item |-> Item(0, 0), panic |-> TRUE]
  ELSE [item |-> At(es, 0), panic |-> FALSE]

\* mergeChildren that leaves the parent references of the moved children
mergeChildrenStaleParent(t, parent, index) ==
  LET p == N(t, parent)
      leftChild == At(N(t, parent).children, index)
      rightChild == At(N(t, parent).children, index + 1)
  IN IF ~InRange(p.children, index) \/ ~InRange(p.children, index + 1) THEN Panic(t)
     ELSE IF ~InRange(p.entries, index) THEN Panic(t)
     ELSE
     Let(SetEntries(t, leftChild,
                    Append(N(t, leftChild).entries, At(p.entries, index))), LAMBDA t1 :
     Let(SetEntries(t1, leftChild,
                    N(t1, leftChild).entries \o N(t1, rightChild).entries), LAMBDA t2 :
     Let(SetChildren(t2, leftChild,
                     N(t2, leftChild).children \o N(t2, rightChild).children), LAMBDA t3 :
     Let(SetEntries(t3, parent, RemoveAt(N(t3, parent).entries, index)), LAMBDA t5 :
     SetChildren(t5, parent, RemoveAt(N(t5, parent).children, index + 1))))))

mergeChildren(t, parent, index) ==
  LET p == N(t, parent)
      leftChild == At(N(t, parent).children, index)
      rightChild == At(N(t, parent).children, index + 1)
  IN IF ~InRange(p.children, index) \/ ~InRange(p.children, index + 1) THEN Panic(t)
     ELSE IF ~InRange(p.entries, index) THEN Panic(t)
     ELSE
     Let(SetEntries(t, leftChild,
                    Append(N(t, leftChild).entries, At(p.entries, index))), LAMBDA t1 :
     Let(SetEntries(t1, leftChild,
                    N(t1, leftChild).entries \o N(t1, rightChild).entries), LAMBDA t2 :
     Let(SetChildren(t2, leftChild,
                     N(t2, leftChild).children \o N(t2, rightChild).children), LAMBDA t3 :
     Let(setParent(t3, N(t3, rightChild).children, leftChild), LAMBDA t4 :
     Let(SetEntries(t4, parent, RemoveAt(N(t4, parent).entries, index)), LAMBDA t5 :
     SetChildren(t5, parent, RemoveAt(N(t5, parent).children, index + 1)))))))

\* the first position of child in parent.children, -1 when it is not there
getChildIndex(t, parent, child) ==
  LET cs == N(t, parent).children
      hits == {i \in 0..(Len(N(t, parent).children) - 1) :
                 At(N(t, parent).children, i) = child}
  IN IF hits = {} THEN -1 ELSE CHOOSE i \in hits : \A j \in hits : i <= j

borrowFromLeft(t, node, index) ==
  LET parent == N(t, node).parent
      leftSibling == At(N(t, N(t, node).parent).children, index - 1)
  IN IF ~InRange(N(t, parent).entries, index - 1) THEN Panic(t)
     ELSE
     Let(SetEntries(t, node, <<At(N(t, parent).entries, index - 1)>>
                                \o N(t, node).entries), LAMBDA t1 :
     Let(N(t1, leftSibling).entries, LAMBDA ls :
     IF Len(ls) = 0 THEN Panic(t1)
     ELSE
     Let(SetEntries(t1, parent, SetAt(N(t1, parent).entries, index - 1,
                                      At(ls, Len(ls) - 1))), LAMBDA t2 :
     Let(SetEntries(t2, leftSibling,
                    Take(N(t2, leftSibling).entries,
                         Len(N(t2, leftSibling).entries) - 1)), LAMBDA t3 :
     IF isLeaf(t3, node) THEN t3
     ELSE
     Let(N(t3, leftSibling).children, LAMBDA lc :
     IF Len(lc) = 0 THEN Panic(t3)
     ELSE
     Let(SetChildren(t3, node, <<At(lc, Len(lc) - 1)>> \o N(t3, node).children),
         LAMBDA t4 :
     Let(SetChildren(t4, leftSibling,
                     Take(N(t4, leftSibling).children,
                          Len(N(t4, leftSibling).children) - 1)), LAMBDA t5 :
     setParent(t5, <<At(N(t5, node).children, 0)>>, node))))))))

borrowFromRight(t, node, index) ==
  LET parent == N(t, node).parent
      rightSibling == At(N(t, N(t, node).parent).children, index + 1)
  IN IF ~InRange(N(t, parent).entries, index) THEN Panic(t)
     ELSE
     Let(SetEntries(t, node, Append(N(t, node).entries,
                                    At(N(t, parent).entries, index))), LAMBDA t1 :
     Let(N(t1, rightSibling).entries, LAMBDA rs :
     IF Len(rs) = 0 THEN Panic(t1)
     ELSE
     Let(SetEntries(t1, parent, SetAt(N(t1, parent).entries, index, At(rs, 0))),
         LAMBDA t2 :
     Let(SetEntries(t2, rightSibling, Drop(N(t2, rightSibling).entries, 1)),
         LAMBDA t3 :
     IF isLeaf(t3, node) THEN t3
     ELSE
     Let(N(t3, rightSibling).children, LAMBDA rc :
     IF Len(rc) = 0 THEN Panic(t3)
     ELSE
     Let(SetChildren(t3, node, Append(N(t3, node).children, At(rc, 0))), LAMBDA t4 :
     Let(SetChildren(t4, rightSibling, Drop(N(t4, rightSibling).children, 1)),
         LAMBDA t5 :
     setParent(t5, <<At(N(t5, node).children, Len(N(t5, node).children) - 1)>>,
               node))))))))

\* rebalance that repairs the node and does not go on to its parent
rebalanceOnce(t, node) ==
  IF t.panic THEN t
  ELSE IF Len(N(t, node).entries) >= minEntries THEN t
  ELSE IF node = t.root THEN t
  ELSE IF N(t, node).parent = NIL THEN Panic(t)
  ELSE
  Let(N(t, node).parent, LAMBDA parent :
  Let(getChildIndex(t, parent, node), LAMBDA index :
  Let(N(t, parent).children, LAMBDA cs :
  IF index > 0 /\ Len(N(t, At(cs, index - 1)).entries) > minEntries
  THEN borrowFromLeft(t, node, index)
  ELSE IF index < Len(cs) - 1 /\ Len(N(t, At(cs, index + 1)).entries) > minEntries
       THEN borrowFromRight(t, node, index)
       ELSE IF index > 0
            THEN mergeChildren(t, parent, index - 1)
            ELSE mergeChildren(t, parent, index))))

RECURSIVE rebalance(_, _)
\* rebalance that asks the right sibling before the left one
rebalanceRightFirst(t, node) ==
  IF t.panic THEN t
  ELSE IF Len(N(t, node).entries) >= minEntries THEN t
  ELSE IF node = t.root THEN t
  ELSE IF N(t, node).parent = NIL THEN Panic(t)
  ELSE
  Let(N(t, node).parent, LAMBDA parent :
  Let(getChildIndex(t, parent, node), LAMBDA index :
  Let(N(t, parent).children, LAMBDA cs :
  Let(IF index < Len(cs) - 1 /\ Len(N(t, At(cs, index + 1)).entries) > minEntries
      THEN borrowFromRight(t, node, index)
      ELSE IF index > 0 /\ Len(N(t, At(cs, index - 1)).entries) > minEntries
           THEN borrowFromLeft(t, node, index)
           ELSE IF index > 0
                THEN mergeChildren(t, parent, index - 1)
                ELSE mergeChildren(t, parent, index), LAMBDA t1 :
  rebalance(t1, parent)))))

rebalance(t, node) ==
  IF t.panic THEN t
  ELSE IF Len(N(t, node).entries) >= minEntries THEN t
  ELSE IF node = t.root THEN t
  ELSE IF N(t, node).parent = NIL THEN Panic(t)
  ELSE
  Let(N(t, node).parent, LAMBDA parent :
  Let(getChildIndex(t, parent, node), LAMBDA index :
  Let(N(t, parent).children, LAMBDA cs :
  Let(IF index > 0 /\ Len(N(t, At(cs, index - 1)).entries) > minEntries
      THEN borrowFromLeft(t, node, index)
      ELSE IF index < Len(cs) - 1 /\ Len(N(t, At(cs, index + 1)).entries) > minEntries
           THEN borrowFromRight(t, node, index)
           ELSE IF index > 0
                THEN mergeChildren(t, parent, index - 1)
                ELSE mergeChildren(t, parent, index), LAMBDA t1 :
  rebalance(t1, parent)))))

RECURSIVE remove(_, _, _)
removeFromNonLeaf(t, node, index) ==
  LET n == N(t, node) IN
  IF ~InRange(n.children, index) THEN Panic(t)
  ELSE IF Len(N(t, At(n.children, index)).entries) >= minEntries
  THEN Let(predecessor(t, node, index), LAMBDA pr :
       IF pr.panic \/ ~InRange(n.entries, index) THEN Panic(t)
       ELSE remove(SetEntries(t, node, SetAt(n.entries, index, pr.item)),
                   At(n.children, index), Len(n.entries) - 1))
  ELSE IF ~InRange(n.children, index + 1) THEN Panic(t)
  ELSE IF Len(N(t, At(n.children, index + 1)).entries) >= minEntries
  THEN Let(successor(t, node, index), LAMBDA su :
       IF su.panic \/ ~InRange(n.entries, index) THEN Panic(t)
       ELSE remove(SetEntries(t, node, SetAt(n.entries, index, su.item)),
                   At(n.children, index + 1), 0))
  ELSE Let(mergeChildren(t, node, index), LAMBDA t1 :
       IF t1.panic THEN t1
       ELSE IF ~InRange(N(t1, node).entries, index) THEN Panic(t1)
       ELSE remove(t1, At(N(t1, node).children, index),
                   searchKeyIndex(t1, node, At(N(t1, node).entries, index).Key).index))

remove(t, node, index) ==
  IF t.panic THEN t
  ELSE Let(IF isLeaf(t, node) THEN removeFromLeaf(t, node, index)
           ELSE removeFromNonLeaf(t, node, index), LAMBDA t1 :
       rebalance(t1, node))

\* Delete that counts the call before it knows that the key is there
DeleteCountsMisses(t, key) ==
  IF t.root = NIL THEN Ret(t, FALSE)
  ELSE Let(searchRecursively(t, t.root, key), LAMBDA s :
       IF s.panic THEN Ret(Panic(t), FALSE)
       ELSE IF ~s.found THEN Ret([t EXCEPT !.size = @ - 1], FALSE)
       ELSE Let(remove(t, s.node, s.index), LAMBDA t1 :
            IF t1.panic THEN Ret(t1, FALSE)
            ELSE Let([t1 EXCEPT !.size = @ - 1], LAMBDA t2 :
                 IF Len(N(t2, t2.root).entries) = 0 /\ Len(N(t2, t2.root).children) > 0
                 THEN Let([t2 EXCEPT !.root = At(N(t2, t2.root).children, 0)],
                          LAMBDA t3 :
                      Ret([t3 EXCEPT !.heap[t3.root].parent = NIL], TRUE))
                 ELSE Ret(t2, TRUE))))

\* Delete that leaves an emptied root in place
DeleteNoCollapse(t, key) ==
  IF t.root = NIL THEN Ret(t, FALSE)
  ELSE Let(searchRecursively(t, t.root, key), LAMBDA s :
       IF s.panic THEN Ret(Panic(t), FALSE)
       ELSE IF ~s.found THEN Ret(t, FALSE)
       ELSE Let(remove(t, s.node, s.index), LAMBDA t1 :
            IF t1.panic THEN Ret(t1, FALSE)
            ELSE Ret([t1 EXCEPT !.size = @ - 1], TRUE)))

\* Delete returns the tree and whether the error is nil
Delete(t, key) ==
  IF t.root = NIL THEN Ret(t, FALSE)
  ELSE Let(searchRecursively(t, t.root, key), LAMBDA s :
       IF s.panic THEN Ret(Panic(t), FALSE)
       ELSE IF ~s.found THEN Ret(t, FALSE)
       ELSE Let(remove(t, s.node, s.index), LAMBDA t1 :
            IF t1.panic THEN Ret(t1, FALSE)
            ELSE Let([t1 EXCEPT !.size = @ - 1], LAMBDA t2 :
                 IF Len(N(t2, t2.root).entries) = 0 /\ Len(N(t2, t2.root).children) > 0
                 THEN Let([t2 EXCEPT !.root = At(N(t2, t2.root).children, 0)],
                          LAMBDA t3 :
                      Ret([t3 EXCEPT !.heap[t3.root].parent = NIL], TRUE))
                 ELSE Ret(t2, TRUE))))

----------------------------------------------------------------------------
\* Unreferenced nodes are reclaimed: the heap is kept as the nodes reachable
\* from the root (by child or parent references), numbered in preorder.

RECURSIVE Flatten(_)
Flatten(ss) == IF Len(ss) = 0 THEN <<>> ELSE Head(ss) \o Flatten(Tail(ss))

RECURSIVE preorder(_, _)
preorder(t, node) ==
  <<node>> \o Flatten([i \in DOMAIN N(t, node).children |->
                         preorder(t, N(t, node).children[i])])

RECURSIVE Dedup(_)
Dedup(s) ==
  IF Len(s) = 0 THEN <<>>
  ELSE Let(Dedup(Take(s, Len(s) - 1)), LAMBDA front :
       IF s[Len(s)] \in Range(front) THEN front ELSE Append(front, s[Len(s)]))

RECURSIVE Closure(_, _)
Closure(t, S) ==
  Let((S \cup {N(t, i).parent : i \in S}
         \cup UNION {Range(N(t, i).children) : i \in S}) \ {NIL}, LAMBDA S2 :
  IF S2 = S THEN S ELSE Closure(t, S2))

RECURSIVE Sorted(_)
Sorted(S) ==
  IF S = {} THEN <<>>
  ELSE Let(CHOOSE x \in S : \A y \in S : x <= y, LAMBDA m :
       <<m>> \o Sorted(S \ {m}))

Renumber(ord, i) == IF i = NIL THEN NIL ELSE CHOOSE j \in DOMAIN ord : ord[j] = i

Compact(t) ==
  IF t.root = NIL THEN [t EXCEPT !.heap = <<>>]
  ELSE
  Let(Dedup(preorder(t, t.root)), LAMBDA pre :
  Let(pre \o Sorted(Closure(t, Range(pre)) \ Range(pre)), LAMBDA ord :
  [t EXCEPT !.root = Renumber(ord, t.root),
            !.heap = [j \in DOMAIN ord |->
                        Node(Renumber(ord, N(t, ord[j]).parent),
                             N(t, ord[j]).entries,
                             [c \in DOMAIN N(t, ord[j]).children |->
                                Renumber(ord, N(t, ord[j]).children[c])])]]))

-----
\* The state machine: one tree, driven by Put, Get and Delete calls.
\* nPut counts the Puts of keys that were not in the tree, nDel the Deletes
\* that returned no error; lastOp is the last Put or Delete and its outcome;
\* ref is the reference map driven by the same calls (0: no value).  Runs
\* with Deletes draw the values they Put from ValsDel, runs of Puts alone
\* from Vals.

\* the tree held in the variables
T == BTree(root, heap, size)

Call(op, ok) == [op |-> op, ok |-> ok]

NoOp == Call("New", TRUE)

Init ==
  /\ order \in Orders
  /\ root = NewBTree.root
  /\ heap = NewBTree.heap
  /\ size = NewBTree.size
  /\ status = "ok"
  /\ nPut = 0
  /\ nDel = 0
  /\ lastOp = NoOp
  /\ ref = [k \in Keys |-> 0]

Crash(op) ==
  /\ status' = "panic"
  /\ lastOp' = Call(op, FALSE)
  /\ UNCHANGED <<order, root, heap, size, nPut, nDel, ref>>

Install(t) ==
  \E c \in {Compact(t)} :
    /\ root' = c.root
    /\ heap' = c.heap
    /\ size' = c.size
    /\ UNCHANGED <<order, status>>

PutAct(k, v) ==
  /\ status = "ok"
  /\ \E g \in {Get(T, k)} :
       /\ ~g.panic
       /\ g.found \/ nPut < MaxPut
       /\ \E t \in {Put(T, k, v)} :
            IF t.panic THEN Crash("Put")
            ELSE /\ Install(t)
                 /\ nPut' = IF g.found THEN nPut ELSE nPut + 1
                 /\ nDel' = nDel
                 /\ lastOp' = Call("Put", TRUE)
                 /\ ref' = [ref EXCEPT ![k] = v]

GetAct(k) ==
  /\ status = "ok"
  /\ IF Get(T, k).panic THEN Crash("Get") ELSE UNCHANGED vars

DeleteAct(k) ==
  /\ status = "ok"
  /\ \E r \in {Delete(T, k)} :
       /\ r.ret => nDel < MaxDel
       /\ IF r.t.panic THEN Crash("Delete")
          ELSE /\ Install(r.t)
               /\ nPut' = nPut
               /\ nDel' = IF r.ret THEN nDel + 1 ELSE nDel
               /\ lastOp' = Call("Delete", r.ret)
               /\ ref' = IF r.ret THEN [ref EXCEPT ![k] = 0] ELSE ref

Next ==
  \/ \E k \in Keys, v \in ValsDel : PutAct(k, v)
  \/ \E k \in Keys : GetAct(k)
  \/ \E k \in Keys : DeleteAct(k)

Spec == Init /\ [][Next]_vars

\* Puts (and Gets) only, for the claims about trees that saw no Delete
NextPut ==
  \/ \E k \in Keys, v \in Vals : PutAct(k, v)
  \/ \E k \in Keys : GetAct(k)

SpecPut == Init /\ [][NextPut]_vars

\* The constructor called with any order: NewBTree panics on the orders it
\* rejects and returns the empty tree on the others, which then sees Puts
\* and Gets.
AllOrders == 0..MaxOrder

\* the guard of NewBTree: TRUE when it panics
NewBTreePanics(o) == o < 2

InitNew ==
  /\ order \in AllOrders
  /\ root = NewBTree.root
  /\ heap = NewBTree.heap
  /\ size = NewBTree.size
  /\ status = IF NewBTreePanics(order) THEN "panic" ELSE "ok"
  /\ nPut = 0
  /\ nDel = 0
  /\ lastOp = Call("New", ~NewBTreePanics(order))
  /\ ref = [k \in Keys |-> 0]

NextNew ==
  \/ \E k \in Keys, v \in ValsDel : PutAct(k, v)
  \/ \E k \in Keys : GetAct(k)

SpecNew == InitNew /\ [][NextNew]_vars

-----
\* What the claims speak about.

\* the nodes of the tree, by child references from the root
Reach == IF root = NIL THEN {} ELSE Range(preorder(T, root))

Internal == {n \in Reach : ~isLeaf(T, n)}

Leaves == {n \in Reach : isLeaf(T, n)}

\* the entry slots of the tree: node and position
Slots == UNION {{<<n, i>> : i \in DOMAIN heap[n].entries} : n \in Reach}

KeysOf(n) == {heap[n].entries[i].Key : i \in DOMAIN heap[n].entries}

SubtreeKeys(n) == UNION {KeysOf(m) : m \in Range(preorder(T, n))}

RECURSIVE LeafDepths(_, _)
LeafDepths(n, d) ==
  IF isLeaf(T, n) THEN {d}
  ELSE UNION {LeafDepths(heap[n].children[i], d + 1) : i \in DOMAIN heap[n].children}

Found(k) == Get(T, k).found

Ok == status = "ok"

\* the last call was a Delete that returned no error
Deleted == Ok /\ lastOp = Call("Delete", TRUE)

\* the bounds as the specification derives them from the order m:
\* minChildren = ceil((m+1)/2), minEntries = minChildren - 1
minChildrenSpec == (order + 2) \div 2

minEntriesSpec == minChildrenSpec - 1

-----
\* C1: map equivalence.  After any sequence of Put and Delete calls the tree
\* agrees with the reference map driven by the same calls: Get finds exactly
\* the keys that were Put and not successfully Deleted since, with the value
\* of the last Put, and no key is stored twice.
MapEquivalence ==
  Ok => /\ \A k \in Keys : /\ Found(k) <=> ref[k] # 0
                           /\ Found(k) => Get(T, k).value = ref[k]
        /\ \A k \in Keys :
             Cardinality({s \in Slots : heap[s[1]].entries[s[2]].Key = k}) <= 1

\* C2: round trip.  After any sequence of Puts alone, Get of every key that
\* was Put returns found and the value of the last Put of that key, whether
\* the key sits in a leaf or in an internal node.
RoundTrip ==
  Ok => \A k \in Keys :
          ref[k] # 0 => Get(T, k) = [value |-> ref[k], found |-> TRUE, panic |-> FALSE]

\* a tree of three levels whose root entry and one leaf entry both carry the
\* second value
RoundTripWitness ==
  /\ Ok /\ root # NIL
  /\ LeafDepths(root, 0) = {2}
  /\ At(heap[root].entries, 0).Value = MaxVal
  /\ ref[At(heap[root].entries, 0).Key] = MaxVal
  /\ \E n \in Leaves : At(heap[n].entries, 0).Value = MaxVal

\* C3: Delete-then-Get.  A key whose Delete returned success, and that was
\* not Put again, is not found by Get.
DeleteThenGet == Ok => \A k \in Keys : ref[k] = 0 => ~Found(k)

\* C4: separator ordering.  After every completed Put or Delete, in every
\* internal node the keys of the subtree of child i are strictly less than
\* entry i and strictly greater than entry i-1.
SeparatorOrdering ==
  Ok => \A n \in Internal : \A i \in 0..(Len(heap[n].children) - 1) :
          \A k \in SubtreeKeys(At(heap[n].children, i)) :
            /\ InRange(heap[n].entries, i) => k < At(heap[n].entries, i).Key
            /\ InRange(heap[n].entries, i - 1) => k > At(heap[n].entries, i - 1).Key

\* C5: sortedness.  After every completed Put or Delete the entries of every
\* node are strictly increasing, so no node holds two entries with equal keys.
Sortedness ==
  Ok => \A n \in Reach : \A i, j \in DOMAIN heap[n].entries :
          i < j => Less(heap[n].entries[i].Key, heap[n].entries[j].Key) < 0

\* C6: balance.  After every completed Put or Delete all leaves are at the
\* same depth from the root.
Balance == (Ok /\ root # NIL) => Cardinality(LeafDepths(root, 0)) = 1

\* a successful Delete that leaves a tree of three levels
BalanceWitness == Deleted /\ root # NIL /\ LeafDepths(root, 0) = {2}

\* C7, as stated: occupancy with minEntries = ceil((m+1)/2) - 1.  After every
\* completed Put or Delete every non-root node holds between that many and
\* maxEntries entries.
OccupancySpec ==
  Ok => \A n \in Reach \ {root} :
          /\ Len(heap[n].entries) >= minEntriesSpec
          /\ Len(heap[n].entries) <= maxEntries

\* C7, amended: occupancy with minEntries = ceil(m/2) - 1, which is what
\* minEntries() computes.  After every completed Put or Delete every non-root
\* node holds between minEntries and maxEntries entries, and the root at
\* most maxEntries.
Occupancy ==
  Ok => /\ \A n \in Reach \ {root} : Len(heap[n].entries) >= minEntries
        /\ \A n \in Reach : Len(heap[n].entries) <= maxEntries

\* an even order, with a non-root node at the lower bound, below the bound
\* of the statement, and another at the upper bound, after a Delete
OccupancyWitness ==
  /\ Deleted /\ order = 4
  /\ \E n \in Reach \ {root} :
       Len(heap[n].entries) = minEntries /\ minEntries < minEntriesSpec
  /\ \E n \in Reach \ {root} : Len(heap[n].entries) = maxEntries

\* C8: child count.  After every completed Put or Delete every internal node
\* with e entries has e+1 children, every leaf none, and the root is never
\* left with no entry and one child.
ChildCount ==
  Ok => /\ \A n \in Reach :
             Len(heap[n].children) \in {0, Len(heap[n].entries) + 1}
        /\ root # NIL =>
             ~(Len(heap[root].entries) = 0 /\ Len(heap[root].children) = 1)

\* order 3, and a successful Delete that leaves two entries in a root leaf:
\* the three entries before it filled two levels, so the root was emptied
\* by a merge and replaced by its child
ChildCountWitness ==
  Deleted /\ order = 3 /\ root # NIL /\ isLeaf(T, root) /\ size = 2

\* C9: structural operations never fail.  In every tree reachable by Puts
\* and Deletes, Delete of a key that is present runs to completion and
\* returns success, and every Put runs to completion.
NeverFails ==
  Ok => /\ \A k \in Keys :
             Found(k) => ~Delete(T, k).t.panic /\ Delete(T, k).ret
        /\ \A k \in Keys, v \in ValsDel : ~Put(T, k, v).panic

\* C10: size consistency.  After N Puts of keys that were not in the tree
\* and D successful Deletes the size is N - D; the other calls leave it.
SizeConsistency == Ok => size = nPut - nDel

\* several Puts and Deletes, the last one a Delete that failed
SizeConsistencyWitness ==
  Ok /\ nPut >= 4 /\ nDel >= 2 /\ size >= 1 /\ lastOp = Call("Delete", FALSE)

-----
\* the keys stored anywhere in the tree
StoredKeys == UNION {KeysOf(n) : n \in Reach}

\* C11: size matches contents.  After every completed Put or Delete, size is
\* the number of entries stored in the nodes reachable from the root, and
\* that number is the number of distinct keys stored.
SizeMatchesContents ==
  Ok => /\ size = Cardinality(Slots)
        /\ Cardinality(Slots) = Cardinality(StoredKeys)

\* a tree with the values of the entries of key k blanked
Except(t, k) ==
  [t EXCEPT !.heap = [i \in DOMAIN @ |->
     [@[i] EXCEPT !.entries = [j \in DOMAIN @ |->
        IF @[j].Key = k THEN Item(k, 0) ELSE @[j]]]]]

\* C12: idempotent overwrite.  Put(k, v) on a tree that holds k makes Get(k)
\* return v and changes neither size nor any node: the same nodes with the
\* same keys, children and parents, and the same values under the other
\* keys.  Put of a key the tree does not hold adds one to size.
IdempotentOverwrite ==
  Ok => \A k \in Keys, v \in Vals :
          Let(Put(T, k, v), LAMBDA t :
            /\ ~t.panic
            /\ Get(t, k) = [value |-> v, found |-> TRUE, panic |-> FALSE]
            /\ Found(k) => /\ t.size = size
                           /\ Except(t, k) = Except(T, k)
            /\ ~Found(k) => t.size = size + 1)

\* after a Delete, a key of an internal node and a key of a leaf, each with
\* a value that Put replaces by another
IdempotentOverwriteWitness ==
  /\ Deleted
  /\ \E n \in Internal, l \in Leaves :
       \E kn \in KeysOf(n), kl \in KeysOf(l) :
         /\ kn # kl
         /\ Get(T, kn).value # MaxVal /\ Get(Put(T, kn, MaxVal), kn).value = MaxVal
         /\ Get(T, kl).value # MaxVal /\ Get(Put(T, kl, MaxVal), kl).value = MaxVal

\* C13: key not found.  Delete on an empty tree, never filled or emptied by
\* earlier Deletes, and Delete of a key that no node of the tree stores
\* return an error and leave size, the root and every node as they were.
KeyNotFound ==
  Ok => \A k \in Keys :
          (size = 0 \/ k \notin StoredKeys \/ ~Found(k)) => Delete(T, k) = Ret(T, FALSE)

\* a Delete that returned an error on a tree that earlier Deletes emptied
KeyNotFoundWitness ==
  Ok /\ lastOp = Call("Delete", FALSE) /\ nDel >= 2 /\ size = 0 /\ root # NIL

\* C14: emptying.  A successful Delete of the only key of a tree of size 1
\* leaves the tree empty: isEmpty() is true, size is 0 and Get finds no key.
\* A tree is empty before the first call and not empty after a Put.
Emptying ==
  Ok => /\ \A k \in Keys :
             (size = 1 /\ Found(k)) =>
                Let(Delete(T, k), LAMBDA r :
                  /\ r.ret /\ ~r.t.panic
                  /\ isEmpty(r.t) /\ r.t.size = 0
                  /\ \A j \in Keys : ~Get(r.t, j).found)
        /\ lastOp = NoOp => isEmpty(T)
        /\ lastOp = Call("Put", TRUE) => ~isEmpty(T)
        /\ (Deleted /\ size = 0) => isEmpty(T) /\ \A j \in Keys : ~Found(j)

\* a tree that held three keys on two levels, emptied by three Deletes
EmptyingWitness ==
  Deleted /\ order = 3 /\ nPut = 3 /\ nDel = 3 /\ size = 0 /\ isEmpty(T)

\* C15: construction guard.  The constructor panics for every order below 3
\* and returns an empty tree, root absent and size 0, for every order from
\* 3 on, so that no tree exists whose nodes hold fewer than 2 entries at most.
ConstructionGuard ==
  /\ order < 3 => status = "panic"
  /\ (order >= 3 /\ lastOp.op = "New") => Ok /\ root = NIL /\ size = 0
  /\ Ok => maxEntries >= 2

-----
\* The shape of a tree: the keys of a node and the shapes below it.

Shape(ks, kids) == [keys |-> ks, kids |-> kids]

Leaf(ks) == Shape(ks, <<>>)

KeySeq(t, n) == [i \in DOMAIN N(t, n).entries |-> N(t, n).entries[i].Key]

RECURSIVE ShapeOf(_, _)
ShapeOf(t, n) ==
  Shape(KeySeq(t, n),
        [i \in DOMAIN N(t, n).children |-> ShapeOf(t, N(t, n).children[i])])

\* the shape of the whole tree; no keys and no children when there is no root
TreeShape(t) == IF t.root = NIL THEN Leaf(<<>>) ELSE ShapeOf(t, t.root)

\* the keys of the subtree of n from left to right
RECURSIVE Inorder(_, _)
Inorder(t, n) ==
  IF isLeaf(t, n) THEN KeySeq(t, n)
  ELSE Flatten([i \in 1..(2 * Len(N(t, n).children) - 1) |->
         IF i % 2 = 1 THEN Inorder(t, N(t, n).children[(i + 1) \div 2])
         ELSE IF i \div 2 <= Len(N(t, n).entries)
              THEN <<N(t, n).entries[i \div 2].Key>> ELSE <<>>])

\* the nodes the search for an absent key visits, from n down to a leaf
RECURSIVE PathTo(_, _, _)
PathTo(t, n, k) ==
  IF isLeaf(t, n) THEN <<n>>
  ELSE <<n>> \o PathTo(t, At(N(t, n).children, searchKeyIndex(t, n, k).index), k)

\* how many nodes at the end of a path hold order - 1 entries
RECURSIVE FullSuffix(_, _)
FullSuffix(t, path) ==
  IF Len(path) = 0 THEN 0
  ELSE IF Len(N(t, path[Len(path)]).entries) = order - 1
       THEN 1 + FullSuffix(t, Take(path, Len(path) - 1))
       ELSE 0

Height(t) == IF t.root = NIL THEN 0 ELSE Len(PathTo(t, t.root, 0))

NodeCount(t) == IF t.root = NIL THEN 0 ELSE Len(preorder(t, t.root))

\* the shapes TestBTreePut1 asserts after Put of 1, 2, ..., 7 at order 3,
\* the empty tree first
Put1to7 ==
  << Leaf(<<>>),
     Leaf(<<1>>),
     Leaf(<<1, 2>>),
     Shape(<<2>>, <<Leaf(<<1>>), Leaf(<<3>>)>>),
     Shape(<<2>>, <<Leaf(<<1>>), Leaf(<<3, 4>>)>>),
     Shape(<<2, 4>>, <<Leaf(<<1>>), Leaf(<<3>>), Leaf(<<5>>)>>),
     Shape(<<2, 4>>, <<Leaf(<<1>>), Leaf(<<3>>), Leaf(<<5, 6>>)>>),
     Shape(<<4>>, <<Shape(<<2>>, <<Leaf(<<1>>), Leaf(<<3>>)>>),
                    Shape(<<6>>, <<Leaf(<<5>>), Leaf(<<7>>)>>)>>) >>

\* e are the keys of a leaf that overflowed: in t2 the key at index
\* floor((m-1)/2) of e sits in an internal node, the keys left of it are the
\* leaf just before it and the keys right of it the leaf just after it
SplitAtMiddle(t2, e) ==
  \E p \in Range(preorder(t2, t2.root)) :
    \E i \in 0..(Len(N(t2, p).entries) - 1) :
      /\ ~isLeaf(t2, p)
      /\ At(N(t2, p).entries, i).Key = At(e, (order - 1) \div 2)
      /\ KeySeq(t2, lastLeaf(t2, At(N(t2, p).children, i))) = Take(e, (order - 1) \div 2)
      /\ KeySeq(t2, firstLeaf(t2, At(N(t2, p).children, i + 1)))
           = Drop(e, (order - 1) \div 2 + 1)

\* C16: split propagation.  Put of a key that is not there keeps the keys in
\* order from left to right; a leaf that exceeds maxEntries is split at index
\* floor((m-1)/2), its middle entry going up between the two halves; the
\* split repeats on every full node above it and stops below the first node
\* with room: one node more per split, and when the root splits a new root
\* of one entry and two children, and one level more.  At order 3, Put of
\* 1, ..., 7 goes through the shapes of Put1to7.
SplitPropagation ==
  Ok => /\ \A k \in Keys :
             (root # NIL /\ ~Found(k)) =>
               Let(Put(T, k, 1), LAMBDA t2 :
               Let(PathTo(T, root, k), LAMBDA path :
               Let(FullSuffix(T, path), LAMBDA s :
                 /\ ~t2.panic
                 /\ Inorder(t2, t2.root) = Sorted(StoredKeys \cup {k})
                 /\ NodeCount(t2) = NodeCount(T) + s + (IF s = Len(path) THEN 1 ELSE 0)
                 /\ Height(t2) = Height(T) + (IF s = Len(path) THEN 1 ELSE 0)
                 /\ s = Len(path) => /\ Len(N(t2, t2.root).entries) = 1
                                     /\ Len(N(t2, t2.root).children) = 2
                 /\ s = 0 => /\ t2.root = root
                             /\ KeySeq(t2, path[Len(path)])
                                  = Sorted(KeysOf(path[Len(path)]) \cup {k})
                 /\ s >= 1 => SplitAtMiddle(t2, Sorted(KeysOf(path[Len(path)]) \cup {k})))))
        /\ order = 3 =>
             /\ lastOp = NoOp => TreeShape(T) = Put1to7[1]
             /\ \A i \in 1..7 :
                  (TreeShape(T) = Put1to7[i] /\ size = i - 1) =>
                     /\ TreeShape(Put(T, i, 1)) = Put1to7[i + 1]
                     /\ Put(T, i, 1).size = i

\* order 3 after seven Puts, in the last shape of Put1to7
SplitPropagationWitness ==
  Ok /\ order = 3 /\ nPut = 7 /\ nDel = 0 /\ TreeShape(T) = Put1to7[8]

\* the tree TestBTreeRemove7 asserts after Delete(1) on the last shape of
\* Put1to7
Remove7 == Shape(<<4, 6>>, <<Leaf(<<2, 3>>), Leaf(<<5>>), Leaf(<<7>>)>>)

\* s without the keys equal to k
RECURSIVE Without(_, _)
Without(s, k) ==
  IF Len(s) = 0 THEN <<>>
  ELSE (IF Head(s) = k THEN <<>> ELSE <<Head(s)>>) \o Without(Tail(s), k)

\* every node of the path, and every child of a node of the path, holds
\* exactly minEntries entries
AllAtMin(t, path) ==
  \A i \in DOMAIN path :
    /\ Len(N(t, path[i]).entries) = minEntries
    /\ \A j \in DOMAIN N(t, path[i]).children :
         Len(N(t, N(t, path[i]).children[j]).entries) = minEntries

PromotedEntryRemoved ==
  (Ok /\ nDel = 0) =>
    \A k \in Keys :
      Let(searchRecursively(T, root, k), LAMBDA s :
        (s.found /\ ~isLeaf(T, s.node)) =>
          Let(Delete(T, k), LAMBDA r :
            /\ r.ret
            /\ ~r.t.panic
            /\ Inorder(r.t, r.t.root) = Without(Inorder(T, root), k)))

\* the entry removeFromNonLeaf writes into slot index of node; Item(0, 0)
\* when it takes the branch that merges and writes none
promoted(t, node, index) ==
  IF Len(N(t, At(N(t, node).children, index)).entries) >= minEntries
  THEN predecessor(t, node, index).item
  ELSE IF Len(N(t, At(N(t, node).children, index + 1)).entries) >= minEntries
       THEN successor(t, node, index).item
       ELSE Item(0, 0)

\* the number of entries of child i of node
ChildLen(t, node, i) == Len(N(t, At(N(t, node).children, i)).entries)

\* C19: predecessor/successor preference.  On a tree built by Puts alone,
\* when the key to delete is entry i of an internal node: with more than
\* minEntries entries in child i the predecessor is promoted; with child i at
\* minEntries and child i+1 above it the successor, the least key below
\* child i+1, is promoted; with both at minEntries the predecessor is
\* promoted, and when child i is a leaf and no left sibling can lend, a merge
\* takes a node away.
PromotionPreference ==
  (Ok /\ nDel = 0) =>
    \A k \in Keys :
      Let(searchRecursively(T, root, k), LAMBDA s :
        (s.found /\ ~isLeaf(T, s.node)) =>
          /\ ChildLen(T, s.node, s.index) > minEntries =>
               promoted(T, s.node, s.index) = predecessor(T, s.node, s.index).item
          /\ (/\ ChildLen(T, s.node, s.index) = minEntries
              /\ ChildLen(T, s.node, s.index + 1) > minEntries) =>
               promoted(T, s.node, s.index) = successor(T, s.node, s.index).item
          /\ (/\ ChildLen(T, s.node, s.index) = minEntries
              /\ ChildLen(T, s.node, s.index + 1) = minEntries) =>
               /\ promoted(T, s.node, s.index) = predecessor(T, s.node, s.index).item
               /\ (/\ ~Delete(T, k).t.panic
                   /\ isLeaf(T, At(N(T, s.node).children, s.index))
                   /\ (s.index = 0 \/ ChildLen(T, s.node, s.index - 1) = minEntries)) =>
                    NodeCount(Delete(T, k).t) < NodeCount(T))

\* The repairs as the rules for an underflowing node state them, on the node
\* at position i of the children of its parent p.

\* the separator left of the node moves down as the node's first entry, the
\* left sibling's last entry becomes the separator, and below an internal
\* node the left sibling's last child comes along as the node's first child
RotateRight(t, node, p, i) ==
  Let(At(N(t, p).children, i - 1), LAMBDA lender :
  Let([t EXCEPT
         !.heap[node].entries = <<At(N(t, p).entries, i - 1)>> \o @,
         !.heap[p].entries = SetAt(@, i - 1, At(N(t, lender).entries,
                                                Len(N(t, lender).entries) - 1)),
         !.heap[lender].entries = Take(@, Len(@) - 1)], LAMBDA u :
  IF isLeaf(t, node) THEN u
  ELSE Let(At(N(t, lender).children, Len(N(t, lender).children) - 1), LAMBDA c :
       [u EXCEPT !.heap[node].children = <<c>> \o @,
                 !.heap[lender].children = Take(@, Len(@) - 1),
                 !.heap[c].parent = node])))

\* the separator right of the node moves down as the node's last entry, the
\* right sibling's first entry becomes the separator, and below an internal
\* node the right sibling's first child comes along as the node's last child
RotateLeft(t, node, p, i) ==
  Let(At(N(t, p).children, i + 1), LAMBDA lender :
  Let([t EXCEPT
         !.heap[node].entries = Append(@, At(N(t, p).entries, i)),
         !.heap[p].entries = SetAt(@, i, At(N(t, lender).entries, 0)),
         !.heap[lender].entries = Drop(@, 1)], LAMBDA u :
  IF isLeaf(t, node) THEN u
  ELSE Let(At(N(t, lender).children, 0), LAMBDA c :
       [u EXCEPT !.heap[node].children = Append(@, c),
                 !.heap[lender].children = Drop(@, 1),
                 !.heap[c].parent = node])))

\* children j and j+1 of p become one node, the left one: its entries, the
\* separator j, the right one's entries, and the children of both, which all
\* get the left one as parent; p loses the separator and the right child
MergeAt(t, p, j) ==
  Let(At(N(t, p).children, j), LAMBDA l :
  Let(At(N(t, p).children, j + 1), LAMBDA r :
  [t EXCEPT
     !.heap = [h \in DOMAIN @ |->
       IF h = l
       THEN Node(p, N(t, l).entries \o <<At(N(t, p).entries, j)>> \o N(t, r).entries,
                 N(t, l).children \o N(t, r).children)
       ELSE IF h = p
       THEN Node(N(t, p).parent, RemoveAt(N(t, p).entries, j),
                 RemoveAt(N(t, p).children, j + 1))
       ELSE IF h \in Range(N(t, r).children)
       THEN Node(l, N(t, h).entries, N(t, h).children)
       ELSE @[h]]]))

\* the repair the rules choose for a node that is not the root
RepairOf(t, node) ==
  Let(N(t, node).parent, LAMBDA p :
  Let(getChildIndex(t, p, node), LAMBDA i :
  IF i > 0 /\ ChildLen(t, p, i - 1) > minEntries
  THEN RotateRight(t, node, p, i)
  ELSE IF i < Len(N(t, p).children) - 1 /\ ChildLen(t, p, i + 1) > minEntries
       THEN RotateLeft(t, node, p, i)
       ELSE IF i > 0 THEN MergeAt(t, p, i - 1) ELSE MergeAt(t, p, i)))

\* rebalance leaves the root and a node with minEntries entries or more
\* untouched; on any other node it makes the repair of the rules, which
\* leaves no child of the parent with fewer than minEntries entries, and
\* then does to the parent as it would to the parent after that repair
RepairsAsChosen(t, node) ==
  IF node = t.root \/ Len(N(t, node).entries) >= minEntries
  THEN rebalance(t, node) = t
  ELSE Let(RepairOf(t, node), LAMBDA u :
         /\ ~rebalance(t, node).panic
         /\ rebalance(t, node) = rebalance(u, N(t, node).parent)
         /\ \A j \in 0..(Len(N(u, N(t, node).parent).children) - 1) :
              ChildLen(u, N(t, node).parent, j) >= minEntries)

\* RepairsAsChosen on a leaf that has lost an entry, on its parent after the
\* repair of the leaf, and on the parent of that after the repair of the
\* parent
RECURSIVE RepairsUpward(_, _)
RepairsUpward(t, node) ==
  /\ RepairsAsChosen(t, node)
  /\ (node # t.root /\ Len(N(t, node).entries) < minEntries) =>
       RepairsUpward(RepairOf(t, node), N(t, node).parent)

\* RepairsUpward on every leaf of t, for every entry it may lose
RepairsEveryLeaf(t) ==
  \A k \in 0..(MaxKey + 1) :
    Let(searchRecursively(t, t.root, k), LAMBDA s :
      (s.found /\ isLeaf(t, s.node)) =>
        RepairsUpward(removeFromLeaf(t, s.node, s.index), s.node))

\* C20: rebalance choice.  For every leaf of the tree and every entry it may
\* lose, and then for every node above it that a merge leaves short: borrow
\* from the left sibling if there is one with more than minEntries entries,
\* else from the right sibling on the same condition, else merge with the
\* left sibling if there is one, else with the right; then the same on the
\* parent.  No lender is left below minEntries; the root, and a node with
\* minEntries entries or more, are left as they are.  The same holds on the
\* nine-key trees that one more Put, of a key below or above all others,
\* makes of a full tree.
RebalanceChoice ==
  Ok => /\ RepairsEveryLeaf(T)
        /\ size = MaxKey => /\ RepairsEveryLeaf(Put(T, 0, 1))
                            /\ RepairsEveryLeaf(Put(T, MaxKey + 1, 1))

\* TestBTreeRemove5: order 3, after five Puts and two Deletes, the second
\* of which borrowed from the left sibling: root [2] over [1] and [3]
RebalanceChoiceWitness ==
  /\ Deleted /\ order = 3 /\ nPut = 5 /\ nDel = 2
  /\ TreeShape(T) = Shape(<<2>>, <<Leaf(<<1>>), Leaf(<<3>>)>>)

\* rebalance(node) on t, followed through its calls on the parents: every
\* call that gets past the two early returns finds node among the children
\* of node.parent, and node.parent among the nodes of the tree
RECURSIVE RebalanceAttached(_, _)
RebalanceAttached(t, node) ==
  IF t.panic THEN TRUE
  ELSE IF Len(N(t, node).entries) >= minEntries THEN TRUE
  ELSE IF node = t.root THEN TRUE
  ELSE /\ N(t, node).parent # NIL
       /\ getChildIndex(t, N(t, node).parent, node) >= 0
       /\ N(t, node).parent \in Range(preorder(t, t.root))
       /\ RebalanceAttached(RepairOf(t, node), N(t, node).parent)

\* the call of remove that removeFromNonLeaf(node, index) makes: the tree it
\* is made on, the child and the index it is given
innerRemove(t, node, index) ==
  IF ChildLen(t, node, index) >= minEntries
  THEN [t |-> SetEntries(t, node, SetAt(N(t, node).entries, index,
                                        predecessor(t, node, index).item)),
        node |-> At(N(t, node).children, index),
        index |-> Len(N(t, node).entries) - 1]
  ELSE IF ChildLen(t, node, index + 1) >= minEntries
  THEN [t |-> SetEntries(t, node, SetAt(N(t, node).entries, index,
                                        successor(t, node, index).item)),
        node |-> At(N(t, node).children, index + 1),
        index |-> 0]
  ELSE Let(mergeChildren(t, node, index), LAMBDA t1 :
       [t |-> t1,
        node |-> At(N(t1, node).children, index),
        index |-> searchKeyIndex(t1, node, At(N(t1, node).entries, index).Key).index])

\* remove(node, index) on t: RebalanceAttached for the rebalance it ends
\* with and for those of the remove it makes on the way
RECURSIVE RemoveAttached(_, _, _)
RemoveAttached(t, node, index) ==
  IF t.panic THEN TRUE
  ELSE IF isLeaf(t, node)
  THEN RebalanceAttached(removeFromLeaf(t, node, index), node)
  ELSE Let(innerRemove(t, node, index), LAMBDA c :
         /\ RemoveAttached(c.t, c.node, c.index)
         /\ RebalanceAttached(removeFromNonLeaf(t, node, index), node))

\* C21: rebalance only touches attached nodes.  On a tree built by Puts
\* alone, during Delete of any key that is there, every rebalance that gets
\* past the minEntries and root checks is on a node that is a child of its
\* parent, the parent being a node of the tree.
RebalanceOnAttached ==
  (Ok /\ nDel = 0) =>
    \A k \in Keys :
      Let(searchRecursively(T, root, k), LAMBDA s :
        s.found => RemoveAttached(T, s.node, s.index))

\* in t every child of a node reachable from the root has that node as its
\* parent, and the root has none
ParentRefsOf(t) ==
  t.root # NIL =>
    /\ N(t, t.root).parent = NIL
    /\ \A n \in Range(preorder(t, t.root)) :
         \A j \in DOMAIN N(t, n).children :
           N(t, N(t, n).children[j]).parent = n

\* C22: parent back-references.  After every completed Put or Delete every
\* child of a reachable node has that node as its parent and the root has no
\* parent.  The same holds on the nine-key trees that one more Put, of a key
\* below or above all others, makes of a full tree, and on what any Delete
\* that returns makes of those.
ParentReferences ==
  Ok => /\ ParentRefsOf(T)
        /\ size = MaxKey =>
             \A e \in {0, MaxKey + 1} :
               Let(Put(T, e, 1), LAMBDA t9 :
                 /\ ParentRefsOf(t9)
                 /\ \A k \in 0..(MaxKey + 1) :
                      Let(Delete(t9, k), LAMBDA r :
                        ~r.t.panic => ParentRefsOf(r.t)))

\* a Delete has taken a tree of eight Puts from three levels to two, the
\* root over three children
ParentReferencesWitness ==
  /\ Deleted /\ nPut = MaxKey /\ nDel = 1
  /\ Height(T) = 2 /\ Len(heap[root].children) = 3

\* C23: empty tree has no root.  After any sequence of operations the root
\* is absent exactly when size is 0.
RootNilIffEmpty == Ok => (root = NIL <=> size = 0)

\* C24: reuse after emptying.  On a tree that Deletes have emptied, Put(k, v)
\* returns, sets size to 1, makes Get(k) return v and leaves a root that is a
\* leaf holding that one entry: the tree that the same Put makes of a fresh
\* tree, so that whatever follows goes as it does from a fresh tree.
ReuseAfterEmptying ==
  (Ok /\ size = 0 /\ root # NIL) =>
    \A k \in Keys, v \in Vals :
      Let(Put(T, k, v), LAMBDA t :
        /\ ~t.panic
        /\ t.size = 1
        /\ Get(t, k) = [value |-> v, found |-> TRUE, panic |-> FALSE]
        /\ \A j \in Keys \ {k} : ~Get(t, j).found
        /\ t.root # NIL
        /\ isLeaf(t, t.root)
        /\ N(t, t.root).entries = <<Item(k, v)>>
        /\ N(t, t.root).parent = NIL
        /\ Compact(t) = Compact(Put(NewBTree, k, v)))

\* a tree that two Deletes have emptied, on which Put acts as the claim says
ReuseAfterEmptyingWitness ==
  /\ Deleted /\ nPut = 2 /\ nDel = 2 /\ size = 0 /\ root # NIL
  /\ \A k \in Keys : Get(Put(T, k, MaxVal), k).value = MaxVal

----------------------------------------------------------------------------
\* searchKeyIndex on its own: a tree of order MaxKey + 1 whose root is a leaf
\* holding any set of the keys in ascending order, as Puts leave it, or no
\* entry at all, as a Put and a Delete leave it; the calls are searches of
\* that node.

InitSearch ==
  \E S \in SUBSET Keys :
    /\ order = MaxKey + 1
    /\ root = 1
    /\ heap = <<Node(NIL, [i \in 1..Cardinality(S) |-> Item(Sorted(S)[i], 1)], <<>>)>>
    /\ size = Cardinality(S)
    /\ status = "ok"
    /\ nPut = IF S = {} THEN 1 ELSE Cardinality(S)
    /\ nDel = IF S = {} THEN 1 ELSE 0
    /\ lastOp = IF S = {} THEN Call("Delete", TRUE) ELSE Call("Put", TRUE)
    /\ ref = [k \in Keys |-> IF k \in S THEN 1 ELSE 0]

SearchAct(k) ==
  /\ status = "ok"
  /\ lastOp' = Call("searchKeyIndex", searchKeyIndex(T, root, k).found)
  /\ UNCHANGED <<order, root, heap, size, status, nPut, nDel, ref>>

NextSearch == \E k \in 0..(MaxKey + 1) : SearchAct(k)

SpecSearch == InitSearch /\ [][NextSearch]_vars

\* the keys of es ascend strictly
StrictlySorted(es) ==
  \A i \in 1..(Len(es) - 1) : es[i].Key < es[i + 1].Key

\* the index of the first entry of es with a key greater than key, Len(es)
\* when there is none
FirstGreater(es, key) ==
  IF \E i \in 0..(Len(es) - 1) : At(es, i).Key > key
  THEN CHOOSE i \in 0..(Len(es) - 1) :
         /\ At(es, i).Key > key
         /\ \A j \in 0..(i - 1) : ~(At(es, j).Key > key)
  ELSE Len(es)

\* C25: node search.  On every node whose keys ascend strictly and for every
\* key, searchKeyIndex returns (i, true) with entries[i].Key the key when the
\* key is in the node, and otherwise (i, false) with i the index of the first
\* entry greater than the key, the number of entries when there is none; an
\* entry with the key put at i keeps the keys ascending; on a node without
\* entries the result is (0, false).
NodeSearch ==
  Ok => \A n \in Reach :
          StrictlySorted(heap[n].entries) =>
            \A key \in 0..(MaxKey + 1) :
              Let(searchKeyIndex(T, n, key), LAMBDA r :
                /\ r.found <=> key \in KeysOf(n)
                /\ r.found => /\ InRange(heap[n].entries, r.index)
                              /\ At(heap[n].entries, r.index).Key = key
                /\ ~r.found => /\ r.index = FirstGreater(heap[n].entries, key)
                               /\ StrictlySorted(InsertAt(heap[n].entries, r.index,
                                                          Item(key, 1)))
                /\ Len(heap[n].entries) = 0 => r = [index |-> 0, found |-> FALSE])

\* a search has missed in a node of four entries or more, and there are keys
\* whose place is inside the node, before it and after it
NodeSearchWitness ==
  /\ Ok /\ lastOp = Call("searchKeyIndex", FALSE)
  /\ Len(heap[root].entries) >= 4
  /\ \E a, b, c \in 0..(MaxKey + 1) :
       /\ searchKeyIndex(T, root, a) = [index |-> 0, found |-> FALSE]
       /\ searchKeyIndex(T, root, b) = [index |-> 2, found |-> FALSE]
       /\ searchKeyIndex(T, root, c) = [index |-> Len(heap[root].entries), found |-> FALSE]

====
